---- MODULE Spec2Model ----
(***************************************************************************)
(* RoadWatch: the spatial aggregation engine and retention sweeper of      *)
(* functions/src/index.ts, the classifiers, the ride dashboard's window    *)
(* handler and the SignalProcessor of src/utils/signalProcessor.ts.        *)
(*                                                                         *)
(* Units.  Coordinates are integers, one unit = 360/2^24 degree, so that   *)
(* every bisection of encodeGeohash down to precision 7 is exact.  Around  *)
(* latitude 0 / longitude 0 one unit is 2.386 m of great circle.  Wall     *)
(* clock and report timestamps of the server are counted in periods of 30  *)
(* days.  Accelerations, magnitudes and speeds are hundredths of their     *)
(* unit; a confidence or credibility is carried as an exact integer        *)
(* multiple of a fixed fraction (see ConfOne, CredOne).                    *)
(***************************************************************************)
EXTENDS Integers, Sequences, FiniteSets, TLC

VARIABLES
    reports,      \* collection aggregatedReports: document id -> document data
    now,          \* server wall clock, Date.now()
    inflight,     \* aggregateDetection invocations suspended at an await
    sweep,        \* cleanupOldDetections suspended between its query and its commit
    nStarted,     \* number of aggregateDetection invocations started so far
    nextId,       \* the document id the next reportsRef.add gets
    last,         \* the server operation that ran last, with its input and outcome
    merged,       \* for each report: the detections written into it, in the order of the writes
    config,       \* SignalProcessor.config
    buffer,       \* SignalProcessor.buffer
    windowCallback, \* SignalProcessor.windowCallback
    clientNow,    \* the phone's wall clock, Date.now()
    emitted,      \* (startTime, endTime) of the windows handed to windowCallback, in order
    nReadings,    \* number of addReading calls so far
    feed,         \* the timestamp of the last reading; whether each exceeded, or at least reached,
                  \* the one before; the number of readings added before the last reset
    nWindows,     \* number of windows built by processWindow so far
    windowsOf,    \* for each buffered reading, by its number: the windows that held it
    lastCall,     \* the SignalProcessor call that ran last, with its outcome
    request,      \* the classifier call that ran last, with its input and result
    dashboard     \* the Dashboard component: its state, and what its registered handler closed over

serverVars == <<reports, now, inflight, sweep, nStarted, nextId, last, merged>>
clientVars == <<config, buffer, windowCallback, clientNow, emitted, nReadings, feed, nWindows, windowsOf, lastCall, request, dashboard>>
vars == <<serverVars, clientVars>>

-----------------------------------------------------------------------------
(* Bounds of the model *)

\* aggregateDetection invocations of a run, and the last clock period.
MaxDetections == 2
MaxNow == 2

\* addReading calls of a ride, and the last millisecond of the readings'
\* timestamps.
MaxReadings == 4
MaxTime == 3

-----------------------------------------------------------------------------
(* Arithmetic helpers *)

Abs(x) == IF x < 0 THEN -x ELSE x

Min(a, b) == IF a <= b THEN a ELSE b

Max(a, b) == IF a >= b THEN a ELSE b

RECURSIVE GCD(_, _)
GCD(a, b) == IF b = 0 THEN a ELSE GCD(b, a % b)

\* Math.sqrt on the integers: the floor of the square root, by bisection.
RECURSIVE SqrtBetween(_, _, _)
SqrtBetween(n, lo, hi) ==
    IF lo >= hi THEN lo
    ELSE LET mid == (lo + hi + 1) \div 2
         IN IF mid * mid <= n THEN SqrtBetween(n, mid, hi)
                              ELSE SqrtBetween(n, lo, mid - 1)

ISqrt(n) == SqrtBetween(n, 0, Min(n, 46340))

\* Math.round of the non-negative fraction num/den.
Round(num, den) == (2 * num + den) \div (2 * den)

-----------------------------------------------------------------------------
(* Geo math: functions/src/index.ts *)

\* 90 and 180 degrees in coordinate units.
Lat90 == 2^22
Lng180 == 2^23

\* Number of characters of BASE32; a character is modelled by its position in
\* BASE32, whose characters are in ascending code order.
Base32Size == 32

\* The character \uf8ff, which sorts after every character of BASE32.
HighSentinel == Base32Size

RECURSIVE GeohashLoop(_, _, _, _, _, _, _, _, _, _, _)
GeohashLoop(lat, lng, precision, idx, bit, evenBit, geohash, latMin, latMax, lngMin, lngMax) ==
    IF Len(geohash) >= precision THEN geohash
    ELSE LET lngMid == (lngMin + lngMax) \div 2
             latMid == (latMin + latMax) \div 2
             upper == IF evenBit THEN lng >= lngMid ELSE lat >= latMid
             idx2 == IF upper THEN idx * 2 + 1 ELSE idx * 2
             full == (bit + 1 = 5)
         IN GeohashLoop(lat, lng, precision,
                IF full THEN 0 ELSE idx2,
                IF full THEN 0 ELSE bit + 1,
                ~evenBit,
                IF full THEN Append(geohash, idx2) ELSE geohash,
                IF ~evenBit /\ upper THEN latMid ELSE latMin,
                IF ~evenBit /\ ~upper THEN latMid ELSE latMax,
                IF evenBit /\ upper THEN lngMid ELSE lngMin,
                IF evenBit /\ ~upper THEN lngMid ELSE lngMax)

encodeGeohash(lat, lng, precision) ==
    GeohashLoop(lat, lng, precision, 0, 0, TRUE, <<>>,
                -Lat90, Lat90, -Lng180, Lng180)

\* Centimetres of great circle per coordinate unit at the equator:
\* 2 * pi * R / 2^24 = 2.386 m with R = 6371000 m.
CmPerUnit == 239

\* Haversine distance, in centimetres.  For points within a few hundred units
\* of latitude 0 / longitude 0 (all points of the model) cos(lat) is 1 to 10
\* digits and sin, atan2 are the identity, so that the haversine form reduces
\* to R * sqrt(dLat^2 + dLon^2).
calculateDistance(lat1, lon1, lat2, lon2) ==
    LET dLat == lat2 - lat1
        dLon == lon2 - lon1
        a == dLat * dLat + dLon * dLon
    IN ISqrt(a * CmPerUnit * CmPerUnit)

-----------------------------------------------------------------------------
(* Classifiers: services/mlClient.ts (classifyLocally) and                   *)
(* functions/src/index.ts (classifyDefectML).  A confidence c is carried as  *)
(* the integer c * ConfOne, which is exact for both confidence formulas.     *)

ConfOne == 30 * 1000

\* DEFAULT_CONFIG.confidenceThreshold, 0.7
confidenceThreshold == (7 * ConfOne) \div 10

classifyLocally_unclamped(window) ==
    LET magnitude == window.magnitude
        peakMagnitude == window.peakMagnitude
        averageSpeed == window.averageSpeed
    IN IF peakMagnitude > 800 /\ magnitude > 400
       THEN [defectType |-> "pothole",
             confidence |-> Min((85 * ConfOne) \div 100, 20 * peakMagnitude),
             severity |-> Round(peakMagnitude, 150)]
       ELSE IF magnitude > 300 /\ peakMagnitude < 1000 /\ averageSpeed < 3000
       THEN [defectType |-> "speed_breaker",
             confidence |-> Min((9 * ConfOne) \div 10, 50 * magnitude),
             severity |-> Min(10, Round(3 * magnitude, 200))]
       ELSE [defectType |-> "normal",
             confidence |-> (95 * ConfOne) \div 100,
             severity |-> 0]

classifyLocally_breakerFirst(window) ==
    LET magnitude == window.magnitude
        peakMagnitude == window.peakMagnitude
        averageSpeed == window.averageSpeed
    IN IF magnitude > 300 /\ peakMagnitude < 1000 /\ averageSpeed < 3000
       THEN [defectType |-> "speed_breaker",
             confidence |-> Min((9 * ConfOne) \div 10, 50 * magnitude),
             severity |-> Min(10, Round(3 * magnitude, 200))]
       ELSE IF peakMagnitude > 800 /\ magnitude > 400
       THEN [defectType |-> "pothole",
             confidence |-> Min((85 * ConfOne) \div 100, 20 * peakMagnitude),
             severity |-> Min(10, Round(peakMagnitude, 150))]
       ELSE [defectType |-> "normal",
             confidence |-> (95 * ConfOne) \div 100,
             severity |-> 0]

classifyLocally(window) ==
    LET magnitude == window.magnitude
        peakMagnitude == window.peakMagnitude
        averageSpeed == window.averageSpeed
    IN IF peakMagnitude > 800 /\ magnitude > 400
       THEN [defectType |-> "pothole",
             confidence |-> Min((85 * ConfOne) \div 100, 20 * peakMagnitude),
             severity |-> Min(10, Round(peakMagnitude, 150))]
       ELSE IF magnitude > 300 /\ peakMagnitude < 1000 /\ averageSpeed < 3000
       THEN [defectType |-> "speed_breaker",
             confidence |-> Min((9 * ConfOne) \div 10, 50 * magnitude),
             severity |-> Min(10, Round(3 * magnitude, 200))]
       ELSE [defectType |-> "normal",
             confidence |-> (95 * ConfOne) \div 100,
             severity |-> 0]

classifyDefectML_breakerFirst(window) ==
    LET magnitude == window.magnitude
        peakMagnitude == window.peakMagnitude
        averageSpeed == window.averageSpeed
    IN IF magnitude > 300 /\ peakMagnitude < 1200 /\ averageSpeed < 3500
       THEN [defectType |-> "speed_breaker",
             confidence |-> Min((92 * ConfOne) \div 100,
                                (5 * ConfOne) \div 10 + 30 * magnitude),
             severity |-> Min(10, Round(magnitude, 50))]
       ELSE IF peakMagnitude > 800 /\ magnitude > 400
       THEN [defectType |-> "pothole",
             confidence |-> Min((95 * ConfOne) \div 100,
                                (6 * ConfOne) \div 10 + 15 * (peakMagnitude - 800)
                                    + 9 * (magnitude - 400)),
             severity |-> Min(10, Round(peakMagnitude, 120))]
       ELSE [defectType |-> "normal",
             confidence |-> (95 * ConfOne) \div 100,
             severity |-> 0]

classifyDefectML(window) ==
    LET magnitude == window.magnitude
        peakMagnitude == window.peakMagnitude
        averageSpeed == window.averageSpeed
    IN IF peakMagnitude > 800 /\ magnitude > 400
       THEN [defectType |-> "pothole",
             confidence |-> Min((95 * ConfOne) \div 100,
                                (6 * ConfOne) \div 10 + 15 * (peakMagnitude - 800)
                                    + 9 * (magnitude - 400)),
             severity |-> Min(10, Round(peakMagnitude, 120))]
       ELSE IF magnitude > 300 /\ peakMagnitude < 1200 /\ averageSpeed < 3500
       THEN [defectType |-> "speed_breaker",
             confidence |-> Min((92 * ConfOne) \div 100,
                                (5 * ConfOne) \div 10 + 30 * magnitude),
             severity |-> Min(10, Round(magnitude, 50))]
       ELSE [defectType |-> "normal",
             confidence |-> (95 * ConfOne) \div 100,
             severity |-> 0]

-----------------------------------------------------------------------------
(* Inputs of the server: detection documents *)

Users == {"u1", "u2"}

\* Four points on the equator, 10 units (23.9 m) apart; the first lies west of
\* longitude 0, in another geohash cell than the other three.
Points == {[latitude |-> 0, longitude |-> lng] : lng \in {-5, 5, 15, 25}}

\* (magnitude, peakMagnitude, averageSpeed) of two windows: a hard hit, which
\* both classifiers call a pothole, and a sustained vibration with a peak
\* between the two classifiers' speed-breaker bounds, which classifyDefectML
\* calls a speed breaker and classifyLocally normal.
WindowStats ==
    {[magnitude |-> 600, peakMagnitude |-> 1200, averageSpeed |-> 2000],
     [magnitude |-> 350, peakMagnitude |-> 1100, averageSpeed |-> 2000]}

\* The windows a ride can hand to its handler at time t.
RideWindows(t) ==
    {[endTime |-> t, centroid |-> p, magnitude |-> s.magnitude,
      peakMagnitude |-> s.peakMagnitude, averageSpeed |-> s.averageSpeed] :
        p \in Points, s \in WindowStats}

\* What a caller gets when a promise rejects instead of resolving.
Rejected == [defectType |-> "rejected", confidence |-> 0, severity |-> 0]

classifyWithML_rethrow(window, remoteFails) ==
    IF remoteFails THEN Rejected ELSE classifyDefectML(window)

\* classifyWithML: the remote classifier's answer, or classifyLocally when the
\* call fails.
classifyWithML(window, remoteFails) ==
    IF remoteFails THEN classifyLocally(window) ELSE classifyDefectML(window)

NoSession == "null"

\* The detection record handleProcessedWindow builds (sessionId and
\* processedWindow are carried along by the code and read by nobody).
Detection(userId, window, result) ==
    [userId |-> userId,
     timestamp |-> window.endTime,
     location |-> window.centroid,
     defectType |-> result.defectType,
     confidence |-> result.confidence,
     severity |-> result.severity]

\* Dashboard.handleProcessedWindow: the detections it passes to saveDetection.
handleProcessedWindow(sessionId, userId, window, result) ==
    IF sessionId = NoSession \/ userId = "" THEN <<>>
    ELSE IF result.defectType # "normal" /\ result.confidence >= confidenceThreshold
         THEN <<Detection(userId, window, result)>>
         ELSE <<>>

\* The documents a client can create in the collection detections at time t:
\* any classified window of any user, whatever the classification.
DetectionInputs(t) ==
    {Detection(u, w, classifyWithML(w, f)) :
        u \in Users, w \in RideWindows(t), f \in BOOLEAN}

-----------------------------------------------------------------------------
(* Aggregation engine: functions/src/index.ts, aggregateDetection *)

\* AGGREGATION_RADIUS, 25 m, in centimetres.
AGGREGATION_RADIUS == 25 * 100

\* A credibility score c is carried as the integer c * CredOne.
CredOne == 10 * 1000

\* Math.log10(n) * CredOne, rounded, for the report counts of the model.
Log10 == <<0, 3010, 4771, 6021, 6990, 7782, 8451, 9031>>

NoReport == 0

\* String comparison, as Firestore orders strings.
RECURSIVE StrLeq(_, _)
StrLeq(a, b) ==
    IF a = <<>> THEN TRUE
    ELSE IF b = <<>> THEN FALSE
    ELSE IF Head(a) # Head(b) THEN Head(a) < Head(b)
    ELSE StrLeq(Tail(a), Tail(b))

\* geohash.substring(0, 5)
Prefix5(geohash) == SubSeq(geohash, 1, Min(5, Len(geohash)))

\* The geohash of each point of the model at precision 7.
GeohashOf == [p \in Points |-> encodeGeohash(p.latitude, p.longitude, 7)]

\* The documents the query of aggregateDetection returns.
nearbyReports(store, geohash, defectType) ==
    {id \in DOMAIN store :
        /\ StrLeq(Prefix5(geohash), store[id].geohash)
        /\ StrLeq(store[id].geohash, Append(Prefix5(geohash), HighSentinel))
        /\ store[id].defectType = defectType}

\* The order of the query's documents: by geohash, then by document id.  The
\* ids reportsRef.add generates are random, so that among documents of one
\* geohash any can come first.
CanPrecede(store, a, b) == StrLeq(store[a].geohash, store[b].geohash)

WithinRadius(detection, report) ==
    calculateDistance(detection.location.latitude, detection.location.longitude,
                      report.location.latitude, report.location.longitude)
        <= AGGREGATION_RADIUS

\* The for loop: the first document of the query within the radius; the set
\* of the documents that can be that first one, {NoReport} when there is none.
matchedReport(store, detection) ==
    LET docs == nearbyReports(store, GeohashOf[detection.location],
                              detection.defectType)
        near == {id \in docs : WithinRadius(detection, store[id])}
    IN IF near = {} THEN {NoReport}
       ELSE {id \in near : \A other \in near : CanPrecede(store, id, other)}

\* A fraction in lowest terms.
Frac(num, den) == LET g == GCD(num, den) IN [num |-> num \div g, den |-> den \div g]

\* The fields written by matchedReport.ref.update, from the snapshot existing.
uniqueUsersWith_append(existing, detection) ==
    Append(existing.uniqueUsers, detection.userId)

uniqueUsersWith(existing, detection) ==
    IF \E i \in 1..Len(existing.uniqueUsers) : existing.uniqueUsers[i] = detection.userId
    THEN existing.uniqueUsers
    ELSE Append(existing.uniqueUsers, detection.userId)

credibilityOf_unclamped(nUsers, reportCount) ==
    (3 * CredOne) \div 10 + nUsers * ((15 * CredOne) \div 100)
        + (Log10[reportCount] * 2) \div 10

credibilityOf(nUsers, reportCount) ==
    Min(CredOne, (3 * CredOne) \div 10 + nUsers * ((15 * CredOne) \div 100)
                     + (Log10[reportCount] * 2) \div 10)

updatedFields_recentered(existing, detection) ==
    LET uniqueUsers == uniqueUsersWith(existing, detection)
        newReportCount == existing.reportCount + 1
        avg == existing.averageSeverity
        newAverageSeverity ==
            Frac(avg.num * existing.reportCount + detection.severity * avg.den,
                 avg.den * newReportCount)
    IN [reportCount |-> newReportCount,
        averageSeverity |-> newAverageSeverity,
        uniqueUsers |-> uniqueUsers,
        location |-> detection.location,
        lastReported |-> detection.timestamp,
        credibilityScore |-> credibilityOf(Len(uniqueUsers), newReportCount)]

updatedFields_oldCount(existing, detection) ==
    LET uniqueUsers == uniqueUsersWith(existing, detection)
        newReportCount == existing.reportCount + 1
        avg == existing.averageSeverity
        newAverageSeverity ==
            Frac(avg.num * existing.reportCount + detection.severity * avg.den,
                 avg.den * existing.reportCount)
    IN [reportCount |-> newReportCount,
        averageSeverity |-> newAverageSeverity,
        uniqueUsers |-> uniqueUsers,
        lastReported |-> detection.timestamp,
        credibilityScore |-> credibilityOf(Len(uniqueUsers), newReportCount)]

updatedFields(existing, detection) ==
    LET uniqueUsers == uniqueUsersWith(existing, detection)
        newReportCount == existing.reportCount + 1
        avg == existing.averageSeverity
        newAverageSeverity ==
            Frac(avg.num * existing.reportCount + detection.severity * avg.den,
                 avg.den * newReportCount)
    IN [reportCount |-> newReportCount,
        averageSeverity |-> newAverageSeverity,
        uniqueUsers |-> uniqueUsers,
        lastReported |-> detection.timestamp,
        credibilityScore |-> credibilityOf(Len(uniqueUsers), newReportCount)]

newReport_scored(detection) ==
    [geohash |-> GeohashOf[detection.location],
     location |-> detection.location,
     defectType |-> detection.defectType,
     averageSeverity |-> Frac(detection.severity, 1),
     reportCount |-> 1,
     uniqueUsers |-> <<detection.userId>>,
     firstReported |-> detection.timestamp,
     lastReported |-> detection.timestamp,
     credibilityScore |-> credibilityOf(1, 1)]

\* The document written by reportsRef.add.
newReport(detection) ==
    [geohash |-> GeohashOf[detection.location],
     location |-> detection.location,
     defectType |-> detection.defectType,
     averageSeverity |-> Frac(detection.severity, 1),
     reportCount |-> 1,
     uniqueUsers |-> <<detection.userId>>,
     firstReported |-> detection.timestamp,
     lastReported |-> detection.timestamp,
     credibilityScore |-> (3 * CredOne) \div 10]

\* DocumentReference.update: the fields replace those of the stored document;
\* the call fails, and writes nothing, when the document no longer exists.
UpdateDoc(store, id, fields) ==
    IF id \notin DOMAIN store THEN store
    ELSE [store EXCEPT ![id] =
            [f \in DOMAIN store[id] |->
                IF f \in DOMAIN fields THEN fields[f] ELSE store[id][f]]]

\* CollectionReference.add under the fresh document id.
AddDoc(store, id, doc) ==
    [i \in DOMAIN store \cup {id} |-> IF i = id THEN doc ELSE store[i]]

\* aggregateDetection up to its first await: the guard on normal detections
\* and the query with its for loop.  The result is what the invocation holds
\* when it resumes.
QueryPhase(store, detection) ==
    {[det |-> detection,
      matched |-> id,
      existing |-> IF id = NoReport THEN <<>> ELSE store[id]] :
        id \in matchedReport(store, detection)}

skipsDetection_never(detection) == FALSE

skipsDetection(detection) == detection.defectType = "normal"

\* aggregateDetection after the query: update the matched report or add one.
WritePhase(store, inv, freshId) ==
    IF inv.matched # NoReport
    THEN UpdateDoc(store, inv.matched, updatedFields(inv.existing, inv.det))
    ELSE AddDoc(store, freshId, newReport(inv.det))

-----------------------------------------------------------------------------
(* Retention sweeper: functions/src/index.ts, cleanupOldDetections *)

\* 30 days, in clock periods of 30 days.
RetentionPeriods == 1

unverifiedReports_anyCount(store, cutoff) ==
    {id \in DOMAIN store : store[id].lastReported < cutoff}

\* The documents of the sweeper's query.
unverifiedReports(store, cutoff) ==
    {id \in DOMAIN store :
        store[id].reportCount = 1 /\ store[id].lastReported < cutoff}

BatchDelete_first(store, ids) ==
    IF ids = {} THEN store
    ELSE LET first == CHOOSE id \in ids : \A other \in ids : id <= other
         IN [id \in DOMAIN store \ {first} |-> store[id]]

\* batch.delete of each, then batch.commit.
BatchDelete(store, ids) == [id \in DOMAIN store \ ids |-> store[id]]

-----------------------------------------------------------------------------
(* Server state machine *)

NoDet == [userId |-> "", timestamp |-> 0, location |-> [latitude |-> 0, longitude |-> 0],
          defectType |-> "none", confidence |-> 0, severity |-> 0]

\* The record of an operation: its name, the detection it was given (or
\* saved), whether it queried aggregatedReports, the report it matched, the id
\* of the report it created, the reports it deleted; of a sweeper run, whether
\* the operation before it was a sweeper run too and whether that one read
\* the same clock; and whether the clock has advanced since the operation.
Op(op, det, queried, matched, created, deleted, afterSweep, sameClock) ==
    [op |-> op, det |-> det, queried |-> queried, matched |-> matched,
     created |-> created, deleted |-> deleted, afterSweep |-> afterSweep,
     sameClock |-> sameClock, aged |-> FALSE]

NoOp == Op("none", NoDet, FALSE, NoReport, NoReport, {}, FALSE, FALSE)

\* The detections written into each report, after the write of invocation inv
\* on store: the detection opens the list of the report it creates, joins
\* the list of the report it updates, and joins none when the update fails.
Recorded(lists, store, inv, freshId) ==
    IF inv.matched = NoReport THEN AddDoc(lists, freshId, <<inv.det>>)
    ELSE IF inv.matched \in DOMAIN store
         THEN [lists EXCEPT ![inv.matched] = Append(@, inv.det)]
         ELSE lists

\* The lists of the reports that remain after a delete.
Remaining(lists, store) == [id \in DOMAIN store |-> lists[id]]

ServerInit ==
    /\ reports = <<>>
    /\ now = 0
    /\ inflight = <<>>
    /\ sweep = [running |-> FALSE, docs |-> {}]
    /\ nStarted = 0
    /\ nextId = 1
    /\ last = NoOp
    /\ merged = <<>>

\* The Dashboard before it is mounted.
NoDashboard == [mounted |-> FALSE]

NoCall == [op |-> "none", calls |-> <<>>, processed |-> <<>>, members |-> <<>>,
           nths |-> {}, speeds |-> <<>>]

\* windowCallback before setWindowCallback (null).
NoCallback == "null"

\* A SignalProcessor nobody uses, and no classifier call made.
ProcessorIdle ==
    /\ config = [windowDurationMs |-> 0]
    /\ buffer = <<>>
    /\ windowCallback = NoCallback
    /\ clientNow = 0
    /\ emitted = <<>>
    /\ nReadings = 0
    /\ feed = [lastTs |-> 0, increasing |-> TRUE, ordered |-> TRUE, resetAt |-> 0]
    /\ nWindows = 0
    /\ windowsOf = <<>>
    /\ request = [op |-> "none"]
    /\ lastCall = NoCall

ClientIdle == ProcessorIdle /\ dashboard = NoDashboard

\* The server clock advances by one period.
Tick ==
    /\ now < MaxNow
    /\ now' = now + 1
    /\ last' = [last EXCEPT !.aged = TRUE]
    /\ UNCHANGED <<reports, inflight, sweep, nStarted, nextId, merged>>
    /\ UNCHANGED clientVars

\* An invocation of the onCreate trigger run from start to end with nothing
\* else in between; op tells a document saved by the dashboard from one created
\* by any other client of the database.
triggered(detection, op) ==
    /\ nStarted < MaxDetections
    /\ nStarted' = nStarted + 1
    /\ IF skipsDetection(detection)
       THEN /\ UNCHANGED <<reports, nextId, merged>>
            /\ last' = Op(op, detection, FALSE, NoReport, NoReport, {},
                          FALSE, FALSE)
       ELSE \E inv \in QueryPhase(reports, detection) :
               /\ reports' = WritePhase(reports, inv, nextId)
               /\ merged' = Recorded(merged, reports, inv, nextId)
               /\ nextId' = IF inv.matched = NoReport THEN nextId + 1 ELSE nextId
               /\ last' = Op(op, detection, TRUE, inv.matched,
                             IF inv.matched = NoReport THEN nextId ELSE NoReport,
                             {}, FALSE, FALSE)
    /\ UNCHANGED <<now, inflight, sweep>>
    /\ UNCHANGED clientVars

aggregateDetection(detection) == triggered(detection, "aggregate")

\* cleanupOldDetections run from start to end with nothing else in between.
cleanupOldDetections ==
    /\ LET cutoff == now - RetentionPeriods
           docs == unverifiedReports(reports, cutoff)
       IN /\ reports' = BatchDelete(reports, docs)
          /\ merged' = Remaining(merged, BatchDelete(reports, docs))
          /\ last' = Op("cleanup", NoDet, TRUE, NoReport, NoReport, docs,
                        last.op = "cleanup", last.op = "cleanup" /\ ~last.aged)
    /\ UNCHANGED <<now, inflight, sweep, nStarted, nextId>>
    /\ UNCHANGED clientVars

\* Dashboard.handleProcessedWindow for a window of a ride: the handler
\* classifies the window and saves the detection, if any; saveDetection
\* creates the document, and the creation triggers aggregateDetection.
rideWindow(sessionId, userId, window, remoteFails) ==
    LET result == classifyWithML(window, remoteFails)
        saved == handleProcessedWindow(sessionId, userId, window, result)
    IN IF saved = <<>>
       THEN /\ last' = Op("handleWindow", NoDet, FALSE, NoReport, NoReport, {},
                          FALSE, FALSE)
            /\ UNCHANGED <<reports, now, inflight, sweep, nStarted, nextId, merged>>
            /\ UNCHANGED clientVars
       ELSE triggered(saved[1], "rideAggregate")

SessionIds == {NoSession, "s1"}

RideNext ==
    \E sid \in SessionIds, u \in Users \cup {""}, w \in RideWindows(now), f \in BOOLEAN :
        rideWindow(sid, u, w, f)

SeqInit == ServerInit /\ ClientIdle

SeqNext ==
    \/ Tick
    \/ \E d \in DetectionInputs(now) : aggregateDetection(d)
    \/ cleanupOldDetections

\* The server with its invocations run one at a time.
SpecSeq == SeqInit /\ [][SeqNext]_vars

RideInit == ServerInit /\ ClientIdle

RideStep ==
    \/ Tick
    \/ RideNext
    \/ \E d \in DetectionInputs(now) : aggregateDetection(d)
    \/ cleanupOldDetections

\* The dashboard of a ride saving detections into the database the server
\* watches, other clients creating detection documents of their own.
SpecRide == RideInit /\ [][RideStep]_vars

-----------------------------------------------------------------------------
(* The server with its invocations interleaved at their awaits *)

RemoveAt(seq, i) == [j \in 1..(Len(seq) - 1) |-> IF j < i THEN seq[j] ELSE seq[j + 1]]

\* aggregateDetection is triggered for a created detection and runs up to the
\* await of its query.
startAggregate(detection) ==
    /\ nStarted < MaxDetections
    /\ nStarted' = nStarted + 1
    /\ IF skipsDetection(detection)
       THEN /\ UNCHANGED inflight
            /\ last' = Op("skip", detection, FALSE, NoReport, NoReport, {},
                          FALSE, FALSE)
       ELSE \E inv \in QueryPhase(reports, detection) :
               /\ inflight' = Append(inflight, inv)
               /\ last' = Op("query", detection, TRUE, inv.matched, NoReport, {},
                             FALSE, FALSE)
    /\ UNCHANGED <<reports, now, sweep, nextId, merged>>
    /\ UNCHANGED clientVars

\* A suspended invocation resumes with its query's result and writes.
finishAggregate(i) ==
    /\ i \in DOMAIN inflight
    /\ LET inv == inflight[i]
       IN /\ reports' = WritePhase(reports, inv, nextId)
          /\ merged' = Recorded(merged, reports, inv, nextId)
          /\ nextId' = IF inv.matched = NoReport THEN nextId + 1 ELSE nextId
          /\ last' = Op(IF inv.matched = NoReport \/ inv.matched \in DOMAIN reports
                        THEN "write" ELSE "updateFailed",
                        inv.det, FALSE, inv.matched,
                        IF inv.matched = NoReport THEN nextId ELSE NoReport,
                        {}, FALSE, FALSE)
    /\ inflight' = RemoveAt(inflight, i)
    /\ UNCHANGED <<now, sweep, nStarted>>
    /\ UNCHANGED clientVars

\* cleanupOldDetections runs up to the await of its query.
startCleanup ==
    /\ ~sweep.running
    /\ sweep' = [running |-> TRUE,
                 docs |-> unverifiedReports(reports, now - RetentionPeriods)]
    /\ last' = Op("sweepQuery", NoDet, TRUE, NoReport, NoReport, {}, FALSE, FALSE)
    /\ UNCHANGED <<reports, now, inflight, nStarted, nextId, merged>>
    /\ UNCHANGED clientVars

\* cleanupOldDetections resumes: the batch of deletes is committed when the
\* query returned any document.
finishCleanup ==
    /\ sweep.running
    /\ sweep' = [running |-> FALSE, docs |-> {}]
    /\ reports' = IF Cardinality(sweep.docs) > 0 THEN BatchDelete(reports, sweep.docs)
                  ELSE reports
    /\ merged' = Remaining(merged, BatchDelete(reports, sweep.docs))
    /\ last' = Op("sweepCommit", NoDet, FALSE, NoReport, NoReport,
                  sweep.docs \cap DOMAIN reports, FALSE, FALSE)
    /\ UNCHANGED <<now, inflight, nStarted, nextId>>
    /\ UNCHANGED clientVars

Init == ServerInit /\ ClientIdle

Next ==
    \/ Tick
    \/ \E d \in DetectionInputs(now) : startAggregate(d)
    \/ \E i \in DOMAIN inflight : finishAggregate(i)
    \/ startCleanup
    \/ finishCleanup

Spec == Init /\ [][Next]_vars


-----------------------------------------------------------------------------
(* Aggregation on a store that holds a report already *)

\* A pothole of severity 8 detected by userId at the second point.
PastDetection(userId) ==
    [userId |-> userId, timestamp |-> 0,
     location |-> [latitude |-> 0, longitude |-> 5],
     defectType |-> "pothole", confidence |-> (9 * ConfOne) \div 10, severity |-> 8]

\* The store after aggregateDetection has run, alone, on each detection of
\* the sequence in turn.
RECURSIVE StoreAfter(_)
StoreAfter(detections) ==
    IF detections = <<>> THEN <<>>
    ELSE LET store == StoreAfter(SubSeq(detections, 1, Len(detections) - 1))
             inv == CHOOSE inv \in QueryPhase(store, detections[Len(detections)]) : TRUE
         IN WritePhase(store, inv, Cardinality(DOMAIN store) + 1)

\* The detections aggregated before: none, one of one user, three of three
\* other users.
PastRuns ==
    {<<>>,
     <<PastDetection("u1")>>,
     <<PastDetection("u3"), PastDetection("u4"), PastDetection("u5")>>}

\* The stores aggregation starts from: empty, one report of one user, one
\* report of three other users.
PastStores == {StoreAfter(run) : run \in PastRuns}

MergeInit ==
    /\ \E run \in PastRuns :
          /\ reports = StoreAfter(run)
          /\ merged = [id \in DOMAIN StoreAfter(run) |-> run]
    /\ now = 0
    /\ inflight = <<>>
    /\ sweep = [running |-> FALSE, docs |-> {}]
    /\ nStarted = 0
    /\ nextId = Cardinality(DOMAIN reports) + 1
    /\ last = NoOp
    /\ ClientIdle

MergeNext ==
    \/ \E d \in DetectionInputs(now) : startAggregate(d)
    \/ \E i \in DOMAIN inflight : finishAggregate(i)

\* aggregateDetection invocations, interleaved at their awaits, on a store
\* with a history.
SpecMerge == MergeInit /\ [][MergeNext]_vars

\* The store after two invocations overlapped on a report of one detection:
\* both ran their query before either wrote.
OverlappedStore ==
    LET store == StoreAfter(<<PastDetection("u3")>>)
        first == CHOOSE inv \in QueryPhase(store, PastDetection("u1")) : TRUE
        second == CHOOSE inv \in QueryPhase(store, PastDetection("u2")) : TRUE
    IN WritePhase(WritePhase(store, first, 2), second, 2)

OverlapInit ==
    /\ reports = OverlappedStore
    /\ merged = [id \in DOMAIN OverlappedStore |->
                    <<PastDetection("u3"), PastDetection("u1"), PastDetection("u2")>>]
    /\ now = 0
    /\ inflight = <<>>
    /\ sweep = [running |-> FALSE, docs |-> {}]
    /\ nStarted = 0
    /\ nextId = Cardinality(DOMAIN reports) + 1
    /\ last = NoOp
    /\ ClientIdle

\* aggregateDetection invocations, interleaved at their awaits, after two
\* invocations that overlapped.
SpecOverlap == OverlapInit /\ [][MergeNext]_vars

\* The trigger hands over a created detection; its timestamp is the end of
\* the window on the reporting phone, whatever the server clock and whatever
\* was handed over before.
DeliveryNext ==
    \E t \in 0..MaxNow : \E d \in DetectionInputs(t) : aggregateDetection(d)

\* aggregateDetection invocations run one at a time, in any order of the
\* detections' timestamps, on a store with a history.
SpecDelivery == MergeInit /\ [][DeliveryNext]_vars

-----------------------------------------------------------------------------
(* SignalProcessor: src/utils/signalProcessor.ts *)

\* The configurations of the model: DEFAULT_CONFIG with its thresholds, and a
\* window of 2 ms sampled at 1000 or 2000 Hz, so that the sample gate asks
\* for 1 or 2 readings.
AppConfigs ==
    {[minSpeedThreshold |-> 500, windowDurationMs |-> 2, magnitudeThreshold |-> 250,
      sampleRateHz |-> rate] : rate \in {1000, 2000}}

\* gps.speed when the position carries none (null).
NoSpeed == -1

\* The sensor values of a reading: the phone at rest on a vehicle moving at
\* 2 m/s, a bump at 2 m/s, a bump with no speed known.
Sensors ==
    {[accelerometer |-> [x |-> 0, y |-> 0, z |-> 981], speed |-> 200],
     [accelerometer |-> [x |-> 0, y |-> 0, z |-> 1281], speed |-> 200],
     [accelerometer |-> [x |-> 0, y |-> 0, z |-> 1281], speed |-> NoSpeed]}

\* Date.now() at a call of addReading, less the reading's timestamp: the
\* reading is handed over at once, or 3 ms after it was taken.
Lags == {0, 3}

SensorReadings ==
    {[timestamp |-> t,
      accelerometer |-> s.accelerometer,
      gps |-> [latitude |-> 0, longitude |-> 5, speed |-> s.speed]] :
        t \in 0..MaxTime, s \in Sensors}

RECURSIVE Sum(_)
Sum(values) == IF values = <<>> THEN 0 ELSE Head(values) + Sum(Tail(values))

RECURSIVE MaxOf(_)
MaxOf(values) ==
    IF Len(values) = 1 THEN Head(values) ELSE Max(Head(values), MaxOf(Tail(values)))

\* gravity, 9.81 m/s^2
Gravity == 981

calculateMagnitude(acc) ==
    Abs(ISqrt(acc.x * acc.x + acc.y * acc.y + acc.z * acc.z) - Gravity)

calculateRMS(values) ==
    IF Len(values) = 0 THEN 0
    ELSE ISqrt(Sum([i \in 1..Len(values) |-> values[i] * values[i]]) \div Len(values))

average(values) == IF Len(values) = 0 THEN 0 ELSE Sum(values) \div Len(values)

processWindow_speedCount(readings) ==
    LET magnitudes == [i \in 1..Len(readings) |->
                          calculateMagnitude(readings[i].accelerometer)]
        speeds == SelectSeq([i \in 1..Len(readings) |-> readings[i].gps.speed],
                            LAMBDA s : s # NoSpeed)
    IN [startTime |-> readings[1].timestamp,
        endTime |-> readings[Len(readings)].timestamp,
        magnitude |-> calculateRMS(magnitudes),
        peakMagnitude |-> MaxOf(magnitudes),
        averageSpeed |-> IF Len(speeds) > 0
                         THEN (Sum(speeds) * 36) \div (Len(speeds) * 10)
                         ELSE 0,
        centroid |-> [latitude |-> average([i \in 1..Len(readings) |->
                                               readings[i].gps.latitude]),
                      longitude |-> average([i \in 1..Len(readings) |->
                                                readings[i].gps.longitude])],
        sampleCount |-> Len(speeds)]

\* The speeds are metres per second, averageSpeed kilometres per hour.
processWindow(readings) ==
    LET magnitudes == [i \in 1..Len(readings) |->
                          calculateMagnitude(readings[i].accelerometer)]
        speeds == SelectSeq([i \in 1..Len(readings) |-> readings[i].gps.speed],
                            LAMBDA s : s # NoSpeed)
        latitudes == [i \in 1..Len(readings) |-> readings[i].gps.latitude]
        longitudes == [i \in 1..Len(readings) |-> readings[i].gps.longitude]
    IN [startTime |-> readings[1].timestamp,
        endTime |-> readings[Len(readings)].timestamp,
        magnitude |-> calculateRMS(magnitudes),
        peakMagnitude |-> MaxOf(magnitudes),
        averageSpeed |-> IF Len(speeds) > 0
                         THEN (Sum(speeds) * 36) \div (Len(speeds) * 10)
                         ELSE 0,
        centroid |-> [latitude |-> average(latitudes),
                      longitude |-> average(longitudes)],
        sampleCount |-> Len(readings)]

shouldEmitWindow_anyCount(cfg, window) ==
    IF window.averageSpeed < cfg.minSpeedThreshold THEN FALSE
    ELSE IF window.peakMagnitude < cfg.magnitudeThreshold THEN FALSE
    ELSE TRUE

\* expectedSamples = (windowDurationMs / 1000) * sampleRateHz * 0.5, compared
\* after multiplying both sides by 2000.
shouldEmitWindow(cfg, window) ==
    IF window.averageSpeed < cfg.minSpeedThreshold THEN FALSE
    ELSE IF window.peakMagnitude < cfg.magnitudeThreshold THEN FALSE
    ELSE IF window.sampleCount * 2000 < cfg.windowDurationMs * cfg.sampleRateHz THEN FALSE
    ELSE TRUE

pruneOldReadings_byNewest(cfg, buf, dateNow) ==
    LET cutoff == buf[Len(buf)].timestamp - cfg.windowDurationMs * 2
    IN SelectSeq(buf, LAMBDA r : r.timestamp > cutoff)

pruneOldReadings(cfg, buf, dateNow) ==
    LET cutoff == dateNow - cfg.windowDurationMs * 2
    IN SelectSeq(buf, LAMBDA r : r.timestamp > cutoff)

slidePoint_start(cfg, windowStart) == 2 * windowStart

\* Twice windowStart + windowDurationMs / 2: the point the buffer slides to.
slidePoint(cfg, windowStart) == 2 * windowStart + cfg.windowDurationMs

\* checkWindowComplete: the buffer it leaves, the windows it built and the
\* windows it handed to windowCallback.
checkWindowComplete(cfg, buf) ==
    IF Len(buf) < 2
    THEN [buffer |-> buf, calls |-> <<>>, processed |-> <<>>, windowReadings |-> <<>>]
    ELSE
      LET windowStart == buf[1].timestamp
          windowEnd == buf[Len(buf)].timestamp
          windowReadings ==
              SelectSeq(buf, LAMBDA r : /\ r.timestamp >= windowStart
                                        /\ r.timestamp < windowStart + cfg.windowDurationMs)
          processed == processWindow(windowReadings)
      IN IF windowEnd - windowStart >= cfg.windowDurationMs /\ Len(windowReadings) > 0
         THEN [buffer |-> SelectSeq(buf, LAMBDA r :
                              2 * r.timestamp >= slidePoint(cfg, windowStart)),
               calls |-> IF shouldEmitWindow(cfg, processed) THEN <<processed>> ELSE <<>>,
               processed |-> <<processed>>,
               windowReadings |-> windowReadings]
         ELSE [buffer |-> buf, calls |-> <<>>, processed |-> <<>>, windowReadings |-> <<>>]

RECURSIVE drainWindows(_, _)
drainWindows(cfg, buf) ==
    LET one == checkWindowComplete(cfg, buf)
    IN IF one.processed = <<>> \/ one.buffer = buf THEN one
       ELSE LET rest == drainWindows(cfg, one.buffer)
            IN [buffer |-> rest.buffer,
                calls |-> one.calls \o rest.calls,
                processed |-> one.processed \o rest.processed,
                windowReadings |-> one.windowReadings]

addReading_drain(cfg, buf, reading, dateNow) ==
    drainWindows(cfg, pruneOldReadings(cfg, Append(buf, reading), dateNow))

\* addReading: push, pruneOldReadings, checkWindowComplete.
addReading(cfg, buf, reading, dateNow) ==
    checkWindowComplete(cfg, pruneOldReadings(cfg, Append(buf, reading), dateNow))

ClientInit ==
    /\ config \in AppConfigs
    /\ buffer = <<>>
    /\ windowCallback = NoCallback
    /\ clientNow = 0
    /\ emitted = <<>>
    /\ nReadings = 0
    /\ feed = [lastTs |-> 0, increasing |-> TRUE, ordered |-> TRUE, resetAt |-> 0]
    /\ nWindows = 0
    /\ windowsOf = <<>>
    /\ request = [op |-> "none"]
    /\ dashboard = NoDashboard
    /\ lastCall = NoCall

\* A call of addReading at the time dateNow of the phone's clock.  The
\* reading is numbered nth in the order of the calls, which tells the readings
\* apart and is read by no code.
AddReading(reading, dateNow) ==
    /\ nReadings < MaxReadings
    /\ nReadings' = nReadings + 1
    /\ clientNow' = dateNow
    /\ \E done \in {addReading(config, buffer,
                               [timestamp |-> reading.timestamp,
                                accelerometer |-> reading.accelerometer,
                                gps |-> reading.gps,
                                nth |-> nReadings + 1],
                               dateNow)} :
        \E inWindow \in {{done.windowReadings[i].nth : i \in 1..Len(done.windowReadings)}} :
          LET held(n) == LET before == IF n \in DOMAIN windowsOf THEN windowsOf[n] ELSE <<>>
                         IN IF n \in inWindow THEN Append(before, nWindows + 1) ELSE before
              invoked == IF windowCallback # NoCallback THEN done.calls ELSE <<>>
          IN /\ buffer' = done.buffer
             /\ emitted' = emitted \o [i \in 1..Len(invoked) |->
                                         <<invoked[i].startTime, invoked[i].endTime>>]
             /\ nWindows' = nWindows + Len(done.processed)
             /\ windowsOf' = [n \in {done.buffer[i].nth : i \in 1..Len(done.buffer)} |->
                                 held(n)]
             /\ lastCall' = [op |-> "addReading", calls |-> invoked,
                             processed |-> done.processed,
                             members |-> [i \in 1..Len(done.windowReadings) |->
                                             held(done.windowReadings[i].nth)],
                             nths |-> inWindow,
                             speeds |-> [i \in 1..Len(done.windowReadings) |->
                                            done.windowReadings[i].gps.speed]]
    /\ feed' = [lastTs |-> reading.timestamp,
                increasing |-> /\ feed.increasing
                               /\ (nReadings = 0 \/ reading.timestamp > feed.lastTs),
                ordered |-> /\ feed.ordered
                            /\ (nReadings = 0 \/ reading.timestamp >= feed.lastTs),
                resetAt |-> feed.resetAt]
    /\ UNCHANGED <<config, windowCallback, request, dashboard>>
    /\ UNCHANGED serverVars

\* setWindowCallback(callback)
SetWindowCallback ==
    /\ windowCallback' = "handleProcessedWindow"
    /\ lastCall' = [NoCall EXCEPT !.op = "setWindowCallback"]
    /\ UNCHANGED <<config, buffer, clientNow, emitted, nReadings, feed, nWindows, windowsOf,
                   request, dashboard>>
    /\ UNCHANGED serverVars

reset_keepLast(buf) == IF buf = <<>> THEN <<>> ELSE <<buf[Len(buf)]>>

\* reset: the buffer it leaves.
reset(buf) == <<>>

\* A call of reset, from stopRide or from anywhere else.
Reset ==
    /\ buffer' = reset(buffer)
    /\ windowsOf' = [n \in {buffer'[i].nth : i \in 1..Len(buffer')} |-> windowsOf[n]]
    /\ feed' = [feed EXCEPT !.resetAt = nReadings]
    /\ lastCall' = [NoCall EXCEPT !.op = "reset"]
    /\ UNCHANGED <<config, windowCallback, clientNow, emitted, nReadings, nWindows, request,
                   dashboard>>
    /\ UNCHANGED serverVars

InitClient == ServerInit /\ ClientInit

NextClient ==
    \/ \E reading \in SensorReadings, lag \in Lags :
          AddReading(reading, reading.timestamp + lag)
    \/ SetWindowCallback
    \/ Reset

\* A SignalProcessor fed with readings.
SpecClient == InitClient /\ [][NextClient]_vars

\* AppConfig leaves minSpeedThreshold any number: the configurations above,
\* and one that asks for no minimum speed.
AnyConfigs ==
    AppConfigs \cup
        {[minSpeedThreshold |-> 0, windowDurationMs |-> 2, magnitudeThreshold |-> 250,
          sampleRateHz |-> 1000]}

InitAnyConfig ==
    /\ ServerInit
    /\ config \in AnyConfigs
    /\ buffer = <<>>
    /\ windowCallback = NoCallback
    /\ clientNow = 0
    /\ emitted = <<>>
    /\ nReadings = 0
    /\ feed = [lastTs |-> 0, increasing |-> TRUE, ordered |-> TRUE, resetAt |-> 0]
    /\ nWindows = 0
    /\ windowsOf = <<>>
    /\ request = [op |-> "none"]
    /\ dashboard = NoDashboard
    /\ lastCall = NoCall

\* A SignalProcessor constructed with any AppConfig and fed with readings.
SpecAnyConfig == InitAnyConfig /\ [][NextClient]_vars

-----------------------------------------------------------------------------
(* Classifier calls: services/mlClient.ts and the callables of index.ts *)

\* Windows on and around every threshold of the two classifiers, and far
\* beyond them (magnitude, peakMagnitude in 0.01 m/s^2, averageSpeed in
\* 0.01 km/h).
ClassifiedWindows ==
    {[magnitude |-> m, peakMagnitude |-> p, averageSpeed |-> v] :
        m \in {0, 300, 301, 400, 401, 450, 2000},
        p \in {0, 800, 801, 900, 999, 1000, 1199, 1200, 2000},
        v \in {0, 2999, 3000, 3499, 3500}}

\* The batches of the model: up to two windows, which the classifiers tell
\* apart.
BatchWindows ==
    {[magnitude |-> 600, peakMagnitude |-> 1200, averageSpeed |-> 2000],
     [magnitude |-> 350, peakMagnitude |-> 1100, averageSpeed |-> 2000],
     [magnitude |-> 0, peakMagnitude |-> 0, averageSpeed |-> 0]}

Batches ==
    {<<>>} \cup {<<w>> : w \in BatchWindows}
           \cup {<<v, w>> : v \in BatchWindows, w \in BatchWindows}

\* classifyBatch: the remote batch classifier's answer, or classifyLocally of
\* each window when the call fails.
classifyBatch(windows, remoteFails) ==
    IF remoteFails
    THEN [i \in 1..Len(windows) |-> classifyLocally(windows[i])]
    ELSE [i \in 1..Len(windows) |-> classifyDefectML(windows[i])]

ClassifyInit ==
    /\ ServerInit
    /\ ClientIdle

callClassifyLocally(window) ==
    /\ request' = [op |-> "classifyLocally", window |-> window,
                   result |-> classifyLocally(window)]
    /\ UNCHANGED <<config, buffer, windowCallback, clientNow, emitted, nReadings, feed,
                   nWindows, windowsOf, lastCall, dashboard>>
    /\ UNCHANGED serverVars

\* The callable classifyDefect of an authenticated caller.
callClassifyDefect(window) ==
    /\ request' = [op |-> "classifyDefectML", window |-> window,
                   result |-> classifyDefectML(window)]
    /\ UNCHANGED <<config, buffer, windowCallback, clientNow, emitted, nReadings, feed,
                   nWindows, windowsOf, lastCall, dashboard>>
    /\ UNCHANGED serverVars

callClassifyWithML(window, remoteFails) ==
    /\ request' = [op |-> "classifyWithML", window |-> window,
                   remoteFails |-> remoteFails,
                   result |-> classifyWithML(window, remoteFails)]
    /\ UNCHANGED <<config, buffer, windowCallback, clientNow, emitted, nReadings, feed,
                   nWindows, windowsOf, lastCall, dashboard>>
    /\ UNCHANGED serverVars

callClassifyBatch(windows, remoteFails) ==
    /\ request' = [op |-> "classifyBatch", windows |-> windows,
                   remoteFails |-> remoteFails,
                   result |-> classifyBatch(windows, remoteFails)]
    /\ UNCHANGED <<config, buffer, windowCallback, clientNow, emitted, nReadings, feed,
                   nWindows, windowsOf, lastCall, dashboard>>
    /\ UNCHANGED serverVars

ClassifyNext ==
    \/ \E w \in ClassifiedWindows : callClassifyLocally(w)
    \/ \E w \in ClassifiedWindows : callClassifyDefect(w)
    \/ \E w \in ClassifiedWindows, f \in BOOLEAN : callClassifyWithML(w, f)
    \/ \E ws \in Batches, f \in BOOLEAN : callClassifyBatch(ws, f)

\* Calls of the classifiers, one after the other.
SpecClassify == ClassifyInit /\ [][ClassifyNext]_vars

-----------------------------------------------------------------------------
(* Dashboard: src/pages/Dashboard.tsx, the rides of a signed-in user *)

\* Start Ride clicks, and windows the processor hands over, of a run.
MaxRides == 2
MaxRideWindows == 2

\* The ids createSession returns, in the order of the calls.
SessionNames == <<"s1", "s2", "s3", "s4">>

\* The component after its first render: sessionId and isRiding are its
\* state, handlerSessionId the sessionId that the handleProcessedWindow held
\* by the processor closed over, detections the documents handed to
\* saveDetection, statsDetections the counter stats.detections.
DashboardInit ==
    /\ ServerInit
    /\ ProcessorIdle
    /\ \E u \in Users :
          dashboard = [mounted |-> TRUE, userId |-> u, sessionId |-> NoSession,
                       isRiding |-> FALSE, collecting |-> FALSE,
                       handlerSessionId |-> NoSession,
                       rides |-> 0, windows |-> 0, sessions |-> 0,
                       detections |-> <<>>, statsDetections |-> 0]

\* startRide, from the click to the end of its try block.  The click runs the
\* startRide of the render on screen, whose handleProcessedWindow closed over
\* that render's sessionId; setSessionId changes the state of the next
\* render, not that closure.  createSession can reject, and startCollection
\* can throw after the session id was set and the callback registered.
startRide(outcome) ==
    /\ dashboard.mounted
    /\ ~dashboard.isRiding
    /\ dashboard.rides < MaxRides
    /\ IF outcome = "createSessionRejects"
       THEN /\ dashboard' = [dashboard EXCEPT !.rides = @ + 1]
            /\ UNCHANGED <<buffer, windowCallback>>
       ELSE /\ dashboard' =
                 [dashboard EXCEPT !.rides = @ + 1,
                                   !.sessions = @ + 1,
                                   !.sessionId = SessionNames[dashboard.sessions + 1],
                                   !.handlerSessionId = dashboard.sessionId,
                                   !.collecting = (outcome = "started"),
                                   !.isRiding = (outcome = "started")]
            /\ buffer' = <<>>
            /\ windowCallback' = "handleProcessedWindow"
    /\ request' = [op |-> "startRide", outcome |-> outcome]
    /\ UNCHANGED <<config, clientNow, emitted, nReadings, feed, nWindows, windowsOf, lastCall>>
    /\ UNCHANGED serverVars

\* stopRide
stopRide ==
    /\ dashboard.mounted
    /\ dashboard.isRiding
    /\ dashboard' = [dashboard EXCEPT !.isRiding = FALSE, !.collecting = FALSE,
                                      !.sessionId = NoSession]
    /\ buffer' = reset(buffer)
    /\ request' = [op |-> "stopRide"]
    /\ UNCHANGED <<config, windowCallback, clientNow, emitted, nReadings, feed, nWindows,
                   windowsOf, lastCall>>
    /\ UNCHANGED serverVars

\* The processor of the ride hands a window to its windowCallback, the
\* handleProcessedWindow registered by startRide: the guard on its sessionId
\* and userId, classifyWithML, saveDetection.
windowEmitted(window, remoteFails) ==
    /\ dashboard.mounted
    /\ dashboard.collecting
    /\ windowCallback # NoCallback
    /\ dashboard.windows < MaxRideWindows
    /\ LET guarded == dashboard.handlerSessionId = NoSession \/ dashboard.userId = ""
           result == classifyWithML(window, remoteFails)
           saved == handleProcessedWindow(dashboard.handlerSessionId, dashboard.userId,
                                          window, result)
       IN /\ dashboard' = [dashboard EXCEPT !.windows = @ + 1,
                                            !.detections = @ \o saved,
                                            !.statsDetections = @ + Len(saved)]
          /\ request' = [op |-> "handleProcessedWindow", window |-> window,
                         remoteFails |-> remoteFails,
                         sessionId |-> dashboard.sessionId,
                         isRiding |-> dashboard.isRiding,
                         classified |-> ~guarded,
                         result |-> IF guarded THEN Rejected ELSE result,
                         saved |-> saved]
    /\ UNCHANGED <<config, buffer, windowCallback, clientNow, emitted, nReadings, feed,
                   nWindows, windowsOf, lastCall>>
    /\ UNCHANGED serverVars

DashboardNext ==
    \/ \E outcome \in {"createSessionRejects", "startCollectionThrows", "started"} :
          startRide(outcome)
    \/ stopRide
    \/ \E w \in RideWindows(0), f \in BOOLEAN : windowEmitted(w, f)

\* The rides of one Dashboard.
SpecDashboard == DashboardInit /\ [][DashboardNext]_vars

-----------------------------------------------------------------------------
(* Properties of the aggregation engine and of the retention sweeper *)

\* The step is a run of aggregateDetection on the detection last'.det.
AggregateStep == nStarted' = nStarted + 1

\* The step is a run of cleanupOldDetections.
CleanupStep == last'.op = "cleanup" /\ now' = now /\ nStarted' = nStarted

SameCell(a, b) == SubSeq(a, 1, 5) = SubSeq(b, 1, 5)

\* The stored reports of the detection's defectType within 25 m of its point.
ReportsInReach(store, detection) ==
    {id \in DOMAIN store :
        /\ store[id].defectType = detection.defectType
        /\ WithinRadius(detection, store[id])}

\* The candidates of a detection: the reports of its defectType in the
\* geohash cell of precision 5 that holds its point.
Candidates(store, detection) ==
    {id \in DOMAIN store :
        /\ store[id].defectType = detection.defectType
        /\ SameCell(store[id].geohash,
                    encodeGeohash(detection.location.latitude,
                                  detection.location.longitude, 7))}

\* C1: under any interleaving of aggregateDetection invocations, two
\* detections of one defectType whose points lie within 25 m of each other
\* never end up as two separate reports.  Stated for points of one geohash
\* cell, where the query of either invocation returns the report of the other
\* once it is stored.
C1_OneReportPerCluster ==
    \A a \in DOMAIN reports : \A b \in DOMAIN reports :
        (/\ a # b
         /\ reports[a].defectType = reports[b].defectType
         /\ SameCell(reports[a].geohash, reports[b].geohash))
        => calculateDistance(reports[a].location.latitude, reports[a].location.longitude,
                             reports[b].location.latitude, reports[b].location.longitude)
              > AGGREGATION_RADIUS

\* C2: when aggregateDetection runs alone on a non-normal detection and a
\* stored report of its defectType lies within 25 m of its point, the
\* detection is merged and no report is created, wherever the points fall
\* relative to geohash cell boundaries.
C2_MergedAcrossCells ==
    [][(/\ AggregateStep
        /\ last'.det.defectType # "normal"
        /\ ReportsInReach(reports, last'.det) # {})
       => (/\ DOMAIN reports' = DOMAIN reports
           /\ last'.matched \in ReportsInReach(reports, last'.det))]_vars

\* C3: when aggregateDetection processes a non-normal detection and no
\* candidate report of its defectType is within 25 m, it creates exactly one
\* report, with reportCount 1, averageSeverity the detection's severity,
\* uniqueUsers [userId], firstReported = lastReported = the detection's
\* timestamp, credibilityScore 0.3, the detection's point and its geohash of
\* precision 7, and leaves every existing report unchanged.
C3_CreatesOneReport ==
    [][(/\ AggregateStep
        /\ last'.det.defectType # "normal"
        /\ Candidates(reports, last'.det) \cap ReportsInReach(reports, last'.det) = {})
       => LET det == last'.det
          IN \E id \in DOMAIN reports' \ DOMAIN reports :
                /\ DOMAIN reports' = DOMAIN reports \cup {id}
                /\ \A other \in DOMAIN reports : reports'[other] = reports[other]
                /\ reports'[id].reportCount = 1
                /\ reports'[id].averageSeverity = [num |-> det.severity, den |-> 1]
                /\ reports'[id].uniqueUsers = <<det.userId>>
                /\ reports'[id].firstReported = det.timestamp
                /\ reports'[id].lastReported = det.timestamp
                /\ 10 * reports'[id].credibilityScore = 3 * CredOne
                /\ reports'[id].location = det.location
                /\ reports'[id].defectType = det.defectType
                /\ Len(reports'[id].geohash) = 7
                /\ reports'[id].geohash =
                      encodeGeohash(det.location.latitude, det.location.longitude, 7)]_vars

C3_Witness ==
    /\ last.op = "aggregate"
    /\ last.created \in DOMAIN reports
    /\ Cardinality(DOMAIN reports) = 2

C5_NormalNeverReported ==
    [][(AggregateStep /\ last'.det.defectType = "normal")
       => (/\ last'.op # "rideAggregate"
           /\ ~last'.queried
           /\ reports' = reports)]_vars

C5_Witness ==
    /\ last.op = "aggregate"
    /\ last.det.defectType = "normal"
    /\ DOMAIN reports # {}

\* C6: a sweeper run executed alone deletes exactly the reports that have
\* reportCount = 1 and lastReported strictly older than the cutoff, now minus
\* 30 days; every report with reportCount >= 2 and every report with
\* lastReported at or after the cutoff is in the store afterwards, unchanged.
C6_SweepsExactlyStale ==
    [][CleanupStep
       => (/\ DOMAIN reports' =
                {id \in DOMAIN reports :
                    \/ reports[id].reportCount >= 2
                    \/ reports[id].lastReported >= now - RetentionPeriods}
           /\ \A id \in DOMAIN reports' : reports'[id] = reports[id])]_vars

C6_Witness ==
    /\ last.op = "cleanup"
    /\ ~last.aged
    /\ last.deleted # {}
    /\ \E id \in DOMAIN reports :
          reports[id].reportCount = 1 /\ reports[id].lastReported = now - RetentionPeriods

\* C7, as stated: running the sweeper twice in succession, with no detection
\* processed between the two runs, deletes nothing on the second run.
C7_SecondSweepDeletesNothing ==
    (last.op = "cleanup" /\ last.afterSweep) => last.deleted = {}

\* C7, amended: running the sweeper twice in succession, with no detection
\* processed and the clock not advanced between the two runs, so that both
\* runs compute the same cutoff, deletes nothing on the second run.
C7_SecondSweepSameCutoff ==
    (last.op = "cleanup" /\ last.afterSweep /\ last.sameClock) => last.deleted = {}

C7_Witness ==
    /\ last.op = "cleanup"
    /\ last.afterSweep
    /\ last.sameClock
    /\ nextId > Cardinality(DOMAIN reports) + 1
    /\ DOMAIN reports # {}


-----------------------------------------------------------------------------
(* Properties of the SignalProcessor *)

\* C8: each call of addReading invokes the window callback at most once,
\* however many complete window durations the readings of the buffer span.
C8_AtMostOneCallback ==
    lastCall.op = "addReading" => Len(lastCall.calls) <= 1

\* A call that emitted a window and left a buffer that spans another one.
C8_Witness ==
    /\ lastCall.op = "addReading"
    /\ Len(lastCall.calls) = 1
    /\ Len(buffer) >= 2
    /\ buffer[Len(buffer)].timestamp - buffer[1].timestamp >= config.windowDurationMs

\* C9: the callback is invoked for a completed window only if
\* averageSpeed >= minSpeedThreshold, peakMagnitude >= magnitudeThreshold and
\* sampleCount >= (windowDurationMs / 1000) * sampleRateHz * 0.5; a window
\* failing one of them is dropped without a callback.
C9_GatesHold ==
    /\ \A i \in 1..Len(lastCall.calls) :
          LET w == lastCall.calls[i]
          IN /\ w.averageSpeed >= config.minSpeedThreshold
             /\ w.peakMagnitude >= config.magnitudeThreshold
             /\ 1000 * w.sampleCount * 2 >= config.windowDurationMs * config.sampleRateHz
    /\ \A i \in 1..Len(lastCall.processed) :
          LET w == lastCall.processed[i]
          IN (\/ w.averageSpeed < config.minSpeedThreshold
              \/ w.peakMagnitude < config.magnitudeThreshold
              \/ 1000 * w.sampleCount * 2 < config.windowDurationMs * config.sampleRateHz)
             => \A j \in 1..Len(lastCall.calls) : lastCall.calls[j] # w

\* A window with speed and peak above their thresholds dropped for its
\* sample count, after another window was emitted.
C9_Witness ==
    /\ Len(emitted) >= 1
    /\ lastCall.calls = <<>>
    /\ Len(lastCall.processed) = 1
    /\ lastCall.processed[1].averageSpeed >= config.minSpeedThreshold
    /\ lastCall.processed[1].peakMagnitude >= config.magnitudeThreshold

\* C10: for every sequence of addReading calls with strictly increasing
\* timestamps, no two windows passed to the callback have the same
\* (startTime, endTime).
C10_NoDuplicateWindow ==
    feed.increasing =>
        \A i \in 1..Len(emitted) : \A j \in 1..Len(emitted) :
            i # j => emitted[i] # emitted[j]

C10_Witness ==
    /\ feed.increasing
    /\ nReadings = MaxReadings
    /\ Len(emitted) >= 2


\* C11: every ProcessedWindow the SignalProcessor constructs, whether or not
\* it passes the gate, has sampleCount >= 1: processWindow is never applied
\* to an empty selection of readings.
C11_WindowsNotEmpty ==
    \A i \in 1..Len(lastCall.processed) : lastCall.processed[i].sampleCount >= 1

\* A window of a single reading, built and dropped by the gate on its speed.
C11_Witness ==
    /\ lastCall.op = "addReading"
    /\ Len(lastCall.processed) = 1
    /\ lastCall.calls = <<>>
    /\ lastCall.processed[1].sampleCount = 1
    /\ lastCall.processed[1].averageSpeed = 0


\* C12: every ProcessedWindow the SignalProcessor constructs has endTime
\* strictly greater than startTime, for every sequence of readings with
\* non-decreasing timestamps, gaps longer than windowDurationMs included.
C12_EndAfterStart ==
    feed.ordered =>
        \A i \in 1..Len(lastCall.processed) :
            lastCall.processed[i].endTime > lastCall.processed[i].startTime


\* C13: for every sequence of addReading calls with non-decreasing
\* timestamps, each reading is included in at most two constructed windows,
\* and any two windows that share a reading are consecutive windows.
C13_AtMostTwoWindows ==
    feed.ordered =>
        \A i \in 1..Len(lastCall.members) :
            LET held == lastCall.members[i]
            IN /\ Len(held) <= 2
               /\ Len(held) = 2 => held[2] = held[1] + 1

\* A window holding a reading of the window before it.
C13_Witness ==
    /\ feed.ordered
    /\ nWindows = 2
    /\ \E i \in 1..Len(lastCall.members) : lastCall.members[i] = <<1, 2>>


\* C14: reset empties the buffer and changes nothing else: no window
\* constructed after a reset contains a reading added before it, the
\* registered callback and the configuration stay in place, and reset may be
\* called in any state, on an empty buffer too, without invoking the callback.
C14_ResetOnlyEmptiesBuffer ==
    /\ [](lastCall.op = "addReading" =>
             \A n \in lastCall.nths : n > feed.resetAt)
    /\ [][lastCall'.op = "reset"
          => (/\ buffer' = <<>>
              /\ config' = config
              /\ windowCallback' = windowCallback
              /\ emitted' = emitted
              /\ nWindows' = nWindows)]_vars

\* A window built after a reset that was called when two readings had been
\* added and the callback registered.
C14_Witness ==
    /\ feed.resetAt = 2
    /\ windowCallback # NoCallback
    /\ lastCall.op = "addReading"
    /\ lastCall.processed # <<>>


-----------------------------------------------------------------------------
(* Properties of the classifiers *)

DefectTypes == {"pothole", "speed_breaker", "normal"}

\* C15: when the remote call fails, classifyWithML returns the result of the
\* local heuristic for the same window and does not propagate the failure;
\* classifyBatch does the same for every window of the batch.
C15_FallsBackLocally ==
    /\ (request.op = "classifyWithML" /\ request.remoteFails)
          => (/\ request.result.defectType \in DefectTypes
              /\ request.result = classifyLocally(request.window))
    /\ (request.op = "classifyBatch" /\ request.remoteFails)
          => (/\ Len(request.result) = Len(request.windows)
              /\ \A i \in 1..Len(request.windows) :
                    /\ request.result[i].defectType \in DefectTypes
                    /\ request.result[i] = classifyLocally(request.windows[i]))

\* A failed remote call for a window the two classifiers judge differently.
C15_Witness ==
    /\ request.op = "classifyWithML"
    /\ request.remoteFails
    /\ request.result.defectType = "normal"
    /\ classifyDefectML(request.window).defectType = "speed_breaker"


PotholeCondition(w) == w.peakMagnitude > 800 /\ w.magnitude > 400

\* The speed-breaker condition of classifyLocally and of classifyDefectML.
BreakerCondition(op, w) ==
    IF op = "classifyLocally"
    THEN w.magnitude > 300 /\ w.peakMagnitude < 1000 /\ w.averageSpeed < 3000
    ELSE w.magnitude > 300 /\ w.peakMagnitude < 1200 /\ w.averageSpeed < 3500

\* C17: both classifiers test the pothole condition first: a window with
\* peakMagnitude > 8 and magnitude > 4 is always classified pothole; otherwise
\* it is speed_breaker when the speed-breaker condition holds; otherwise it is
\* normal with confidence 0.95 and severity 0.
C17_PotholeFirst ==
    request.op \in {"classifyLocally", "classifyDefectML"} =>
        LET w == request.window
            r == request.result
        IN IF PotholeCondition(w) THEN r.defectType = "pothole"
           ELSE IF BreakerCondition(request.op, w) THEN r.defectType = "speed_breaker"
           ELSE /\ r.defectType = "normal"
                /\ 100 * r.confidence = 95 * ConfOne
                /\ r.severity = 0

\* A window that meets the pothole condition and the speed-breaker condition
\* of classifyDefectML at once.
C17_Witness ==
    /\ request.op = "classifyDefectML"
    /\ PotholeCondition(request.window)
    /\ BreakerCondition(request.op, request.window)
    /\ request.result.defectType = "pothole"

\* C18: for every window with non-negative magnitude, peakMagnitude and
\* averageSpeed, both classifiers return a defectType in {pothole,
\* speed_breaker, normal}, a confidence within [0, 1] and an integer severity
\* within [0, 10].
C18_ResultInRange ==
    (/\ request.op \in {"classifyLocally", "classifyDefectML"}
     /\ request.window.magnitude >= 0
     /\ request.window.peakMagnitude >= 0
     /\ request.window.averageSpeed >= 0)
    => (/\ request.result.defectType \in DefectTypes
        /\ request.result.confidence >= 0
        /\ request.result.confidence <= ConfOne
        /\ request.result.severity \in 0..10)

\* A pothole with a peak of 20 m/s^2, whose severity is cut to 10.
C18_Witness ==
    /\ request.op = "classifyLocally"
    /\ request.window.peakMagnitude = 2000
    /\ request.result.defectType = "pothole"
    /\ request.result.severity = 10


-----------------------------------------------------------------------------
(* Properties of the credibility score *)

\* C19: in every reachable state of the store every report has
\* credibilityScore within [0, 1]: 0.3 at creation and
\* min(1, 0.3 + 0.15 * |uniqueUsers| + 0.2 * log10(reportCount)) after each
\* merge.
C19_CredibilityInRange ==
    \A id \in DOMAIN reports :
        LET r == reports[id]
        IN /\ r.credibilityScore >= 0
           /\ r.credibilityScore <= CredOne
           /\ r.reportCount = 1 => 10 * r.credibilityScore = 3 * CredOne
           /\ r.reportCount > 1 =>
                 r.credibilityScore =
                    Min(CredOne,
                        (3 * CredOne) \div 10
                            + Len(r.uniqueUsers) * ((15 * CredOne) \div 100)
                            + (2 * Log10[r.reportCount]) \div 10)

\* A report of four users whose score the merge cut to 1.
C19_Witness ==
    \E id \in DOMAIN reports :
        /\ reports[id].reportCount = 4
        /\ Len(reports[id].uniqueUsers) = 4
        /\ reports[id].credibilityScore = CredOne
        /\ last.op = "write"
        /\ last.matched = id

\* The step is the write of an invocation that merges into a stored report.
MergeStep ==
    /\ Len(inflight') < Len(inflight)
    /\ last'.matched \in DOMAIN reports

-----------------------------------------------------------------------------
(* Properties of a report against the detections written into it *)

Severities(detections) == [i \in 1..Len(detections) |-> detections[i].severity]

\* C21: after any sequence of aggregateDetection invocations run one at a
\* time, each report's averageSeverity is the arithmetic mean of the
\* severities of the detections merged into it, the creating one included:
\* averageSeverity * reportCount is the sum of those severities.
C21_RunningMean ==
    \A id \in DOMAIN reports :
        LET avg == reports[id].averageSeverity
        IN /\ reports[id].reportCount = Len(merged[id])
           /\ avg.num * reports[id].reportCount = Sum(Severities(merged[id])) * avg.den

\* A report of five detections of severities 8, 8, 8, 10 and 8: mean 42/5.
C21_Witness ==
    /\ last.op = "aggregate"
    /\ last.matched \in DOMAIN reports
    /\ Severities(merged[last.matched]) = <<8, 8, 8, 10, 8>>
    /\ reports[last.matched].averageSeverity = [num |-> 42, den |-> 5]


\* C22: a merge never changes a report's location, geohash, defectType or
\* firstReported: the location stays the first detection's point, and a
\* detection is only ever merged into a report of its own defectType.
C22_MergeKeepsIdentity ==
    /\ [](\A id \in DOMAIN reports :
            /\ reports[id].location = merged[id][1].location
            /\ reports[id].geohash = GeohashOf[merged[id][1].location]
            /\ reports[id].firstReported = merged[id][1].timestamp
            /\ \A k \in 1..Len(merged[id]) :
                  merged[id][k].defectType = reports[id].defectType)
    /\ [][MergeStep =>
            LET m == last'.matched
            IN /\ reports'[m].location = reports[m].location
               /\ reports'[m].geohash = reports[m].geohash
               /\ reports'[m].defectType = reports[m].defectType
               /\ reports'[m].firstReported = reports[m].firstReported
               /\ last'.det.defectType = reports[m].defectType]_vars

\* A detection of another point and a later period was merged.
C22_Witness ==
    /\ last.op = "write"
    /\ last.matched \in DOMAIN reports
    /\ Len(merged[last.matched]) = 2
    /\ merged[last.matched][2] = last.det
    /\ last.det.location # reports[last.matched].location
    /\ last.det.timestamp # reports[last.matched].firstReported


-----------------------------------------------------------------------------
(* Properties of interleaved invocations *)

\* The step is the commit of a sweeper run's batch of deletes.
SweepCommitStep == sweep.running /\ ~sweep'.running

\* C23: under any interleaving of a sweeper run with aggregateDetection
\* invocations, the sweeper never deletes a report whose reportCount is 2 or
\* more at the moment of the delete, and no detection that matched a report
\* is lost because the sweeper removed the report between the match and the
\* update.
C23_SweeperNeedsNoLock ==
    /\ [][SweepCommitStep =>
            \A id \in DOMAIN reports \ DOMAIN reports' : reports[id].reportCount = 1]_vars
    /\ [](last.op # "updateFailed")


\* The sum of count[id] over the ids.
RECURSIVE Total(_, _)
Total(count, ids) ==
    IF ids = {} THEN 0
    ELSE LET id == CHOOSE id \in ids : TRUE
         IN count[id] + Total(count, ids \ {id})

\* C24: once every started aggregateDetection invocation has finished, and
\* with no sweeper run, the sum of reportCount over all reports is the number
\* of non-normal detections processed, also when invocations that match the
\* same report interleave.
C24_NoIncrementLost ==
    inflight = <<>> =>
        Total([id \in DOMAIN reports |-> reports[id].reportCount], DOMAIN reports)
            = Total([id \in DOMAIN merged |-> Len(merged[id])], DOMAIN merged)


Timestamps(detections) == {detections[i].timestamp : i \in 1..Len(detections)}

\* C25: in every reachable state each report has firstReported <=
\* lastReported, firstReported the least and lastReported the greatest
\* timestamp among the detections merged into it, in whatever order the
\* trigger processes the detections.
C25_BoundingTimestamps ==
    \A id \in DOMAIN reports :
        /\ reports[id].firstReported <= reports[id].lastReported
        /\ reports[id].firstReported \in Timestamps(merged[id])
        /\ reports[id].lastReported \in Timestamps(merged[id])
        /\ \A t \in Timestamps(merged[id]) :
              reports[id].firstReported <= t /\ t <= reports[id].lastReported


\* The place of the user's first detection among the detections.
FirstOf(detections, userId) ==
    CHOOSE k \in 1..Len(detections) :
        /\ detections[k].userId = userId
        /\ \A j \in 1..(k - 1) : detections[j].userId # userId

\* C26: in every reachable state each report's uniqueUsers contains no
\* duplicate user id, keeps the order of first appearance, and satisfies
\* 1 <= |uniqueUsers| <= reportCount.
C26_UniqueUsersOrdered ==
    \A id \in DOMAIN reports :
        LET users == reports[id].uniqueUsers
        IN /\ \A i, j \in 1..Len(users) : i # j => users[i] # users[j]
           /\ 1 <= Len(users)
           /\ Len(users) <= reports[id].reportCount
           /\ \A i, j \in 1..Len(users) :
                 i < j => FirstOf(merged[id], users[i]) < FirstOf(merged[id], users[j])


-----------------------------------------------------------------------------
(* Properties of the dashboard *)

\* C27: after a ride has been started successfully with a session id and a
\* user id, every window the processor emits is handed to the classifier, and
\* each result that is not normal and has confidence >= confidenceThreshold
\* is saved as a detection: the registered handler never drops a window for
\* lack of a session id while the ride is active.
C27_ActiveRideSavesDetections ==
    (/\ request.op = "handleProcessedWindow"
     /\ request.isRiding
     /\ request.sessionId # NoSession
     /\ dashboard.userId # "")
        => /\ request.classified
           /\ LET result == classifyWithML(request.window, request.remoteFails)
              IN (result.defectType # "normal" /\ result.confidence >= confidenceThreshold)
                    => /\ request.saved # <<>>
                       /\ request.saved[1].defectType = result.defectType
                       /\ request.saved[1].location = request.window.centroid


-----------------------------------------------------------------------------
(* Properties of the classifiers' conditions *)

\* C28, as stated: the pothole condition and the speed_breaker condition are
\* mutually exclusive in each classifier: no window (magnitude,
\* peakMagnitude, averageSpeed) satisfies both conditions of classifyLocally,
\* and none both conditions of classifyDefectML.
C28_MutuallyExclusive ==
    request.op \in {"classifyLocally", "classifyDefectML"} =>
        ~(PotholeCondition(request.window) /\ BreakerCondition(request.op, request.window))

\* C28, amended: the two conditions hold together exactly for magnitude > 4
\* and 8 < peakMagnitude < 10 with averageSpeed < 30 (classifyLocally), or
\* 8 < peakMagnitude < 12 with averageSpeed < 35 (classifyDefectML); such a
\* window is classified pothole, and a window is classified speed_breaker
\* only when the pothole condition fails.
C28_OverlapIsPothole ==
    request.op \in {"classifyLocally", "classifyDefectML"} =>
        LET w == request.window
            both == PotholeCondition(w) /\ BreakerCondition(request.op, w)
            local == request.op = "classifyLocally"
        IN /\ both <=> (/\ w.magnitude > 400
                        /\ w.peakMagnitude > 800
                        /\ w.peakMagnitude < (IF local THEN 1000 ELSE 1200)
                        /\ w.averageSpeed < (IF local THEN 3000 ELSE 3500))
           /\ both => request.result.defectType = "pothole"
           /\ request.result.defectType = "speed_breaker" => ~PotholeCondition(w)

\* A window that meets both conditions of classifyLocally.
C28_Witness ==
    /\ request.op = "classifyLocally"
    /\ request.window.magnitude = 450
    /\ request.window.peakMagnitude = 900
    /\ request.window.averageSpeed = 0
    /\ PotholeCondition(request.window)
    /\ BreakerCondition(request.op, request.window)
    /\ request.result.defectType = "pothole"


-----------------------------------------------------------------------------
(* Properties of the SignalProcessor's pruning and of windows without speed *)

\* C29: immediately after every addReading call returns, the buffer holds no
\* reading whose timestamp is older than 2 * windowDurationMs relative to the
\* wall clock read during that call (every buffered timestamp is above
\* Date.now() - 2 * windowDurationMs), whatever the timestamps of the
\* readings and however the buffer was slid before.
C29_BufferPruned ==
    lastCall.op = "addReading" =>
        \A i \in 1..Len(buffer) :
            buffer[i].timestamp > clientNow - 2 * config.windowDurationMs

\* The second reading arrived late, no window was ever built, and the first
\* reading is gone from the buffer.
C29_Witness ==
    /\ lastCall.op = "addReading"
    /\ nReadings = 2
    /\ nWindows = 0
    /\ feed.resetAt = 0
    /\ Len(buffer) = 1
    /\ buffer[1].nth = 2


\* C30: for every AppConfig, a completed window in which every reading has a
\* null GPS speed gets averageSpeed 0 and is never passed to the callback,
\* whatever its accelerometer values and sample count.
C30_NoSpeedNeverEmitted ==
    (/\ lastCall.op = "addReading"
     /\ lastCall.processed # <<>>
     /\ \A i \in 1..Len(lastCall.speeds) : lastCall.speeds[i] = NoSpeed)
        => /\ lastCall.processed[1].averageSpeed = 0
           /\ lastCall.calls = <<>>

====
